---- MODULE Spec2Model ----
(***************************************************************************)
(* A model of harmonica's `search` command (src/src/harmonize.py): the     *)
(* label pass, the synonym pass, the merge/clean-up of their results and   *)
(* the final grouped aggregation, one ontology after the other.            *)
(*                                                                         *)
(* Text is a sequence of one-character strings, so that str(), strip(),    *)
(* replace(), startswith(), upper() and lower() are computed character by  *)
(* character.  Column names are text too.  A data frame is a record        *)
(*   [cols |-> sequence of column names, rows |-> sequence of rows]        *)
(* where a row is a function from the frame's column names to cell values. *)
(* A cell is text, or one of the two markers NaN and None below.           *)
(***************************************************************************)
EXTENDS Integers, Sequences, FiniteSets, TLC

(***************************************************************************)
(* Bounds of the model.                                                    *)
(***************************************************************************)
\* the input sheet holds 1..MaxRows records
MaxRows == 2
\* the --oid option names 1..MaxOids ontologies
MaxOids == 2

(***************************************************************************)
(* Cell markers.  Text is made of one-character strings, so a one-element  *)
(* sequence holding a longer string can never be mistaken for text.        *)
(***************************************************************************)
\* pandas' missing value (numpy.nan)
NaN == <<"NaN">>
\* Python's None, what adapter.label() returns for a term without a label
None == <<"None">>

(***************************************************************************)
(* Characters, in code point order: the printable ASCII characters that    *)
(* the identifiers, labels and cell values of the model are made of.       *)
(***************************************************************************)
UpperLetters ==
  << "A", "B", "C", "D", "E", "F", "G", "H", "I", "J", "K", "L", "M",
     "N", "O", "P", "Q", "R", "S", "T", "U", "V", "W", "X", "Y", "Z" >>

LowerLetters ==
  << "a", "b", "c", "d", "e", "f", "g", "h", "i", "j", "k", "l", "m",
     "n", "o", "p", "q", "r", "s", "t", "u", "v", "w", "x", "y", "z" >>

Ascii ==
  << " ", "\"", "'", ",", "-", "0", "1", "2", "3", "4", "5", "6", "7", "8", "9", ":" >>
  \o UpperLetters \o << "[", "\\", "]", "_" >> \o LowerLetters

Ord(c) == CHOOSE i \in 1..Len(Ascii) : Ascii[i] = c

LetterIndex(letters, c) == CHOOSE i \in 1..Len(letters) : letters[i] = c

UpperChar(c) ==
  IF \E i \in 1..Len(LowerLetters) : LowerLetters[i] = c
  THEN UpperLetters[LetterIndex(LowerLetters, c)] ELSE c

LowerChar(c) ==
  IF \E i \in 1..Len(UpperLetters) : UpperLetters[i] = c
  THEN LowerLetters[LetterIndex(UpperLetters, c)] ELSE c

\* str.upper() and str.lower()
Upper(s) == [i \in 1..Len(s) |-> UpperChar(s[i])]
Lower(s) == [i \in 1..Len(s) |-> LowerChar(s[i])]

\* str.startswith(p)
StartsWith(s, p) == Len(s) >= Len(p) /\ SubSeq(s, 1, Len(p)) = p

\* Python's order on str: by code point, a proper prefix first
RECURSIVE StrLess(_, _)
StrLess(a, b) ==
  IF b = <<>> THEN FALSE
  ELSE IF a = <<>> THEN TRUE
  ELSE IF a[1] # b[1] THEN Ord(a[1]) < Ord(b[1])
  ELSE StrLess(Tail(a), Tail(b))

\* the order on tuples of str (the keys of a groupby over several columns)
RECURSIVE KeyLess(_, _)
KeyLess(a, b) ==
  IF b = <<>> THEN FALSE
  ELSE IF a = <<>> THEN TRUE
  ELSE IF a[1] # b[1] THEN StrLess(a[1], b[1])
  ELSE KeyLess(Tail(a), Tail(b))

\* the elements of a sequence
Range(s) == {s[i] : i \in 1..Len(s)}

\* concatenation of a sequence of sequences
RECURSIVE Flatten(_)
Flatten(ss) == IF ss = <<>> THEN <<>> ELSE Head(ss) \o Flatten(Tail(ss))

\* s without its duplicates, first occurrences kept in order
RECURSIVE Unique(_)
Unique(s) ==
  IF s = <<>> THEN <<>>
  ELSE LET r == Unique(SubSeq(s, 1, Len(s) - 1))
           x == s[Len(s)]
       IN IF x \in Range(r) THEN r ELSE Append(r, x)

\* sep.join(parts)
RECURSIVE Join(_, _)
Join(sep, parts) ==
  IF parts = <<>> THEN <<>>
  ELSE IF Len(parts) = 1 THEN parts[1]
  ELSE parts[1] \o sep \o Join(sep, Tail(parts))

CommaSpace == <<",", " ">>

(***************************************************************************)
(* str() of a list of str/None, as astype(str) renders it: repr() of each  *)
(* element, ", " between them, brackets around.                            *)
(***************************************************************************)
\* repr(s) escapes the backslash and the quote it encloses s in
RECURSIVE EscapeFor(_, _)
EscapeFor(s, q) ==
  IF s = <<>> THEN <<>>
  ELSE (IF Head(s) = "\\" \/ Head(s) = q THEN <<"\\", Head(s)>> ELSE <<Head(s)>>)
       \o EscapeFor(Tail(s), q)

\* repr of a str or of None: double quotes when s holds ' and no "
PyRepr(v) ==
  IF v = None THEN <<"N", "o", "n", "e">>
  ELSE IF v = NaN THEN <<"n", "a", "n">>
  ELSE LET q == IF "'" \in Range(v) /\ "\"" \notin Range(v) THEN "\"" ELSE "'"
       IN <<q>> \o EscapeFor(v, q) \o <<q>>

\* str(list)
PyListStr(xs) ==
  <<"[">> \o Join(CommaSpace, [i \in 1..Len(xs) |-> PyRepr(xs[i])]) \o <<"]">>

\* str.strip(chars): leading and trailing characters of the set removed
RECURSIVE LStrip(_, _)
LStrip(s, chars) ==
  IF s # <<>> /\ Head(s) \in chars THEN LStrip(Tail(s), chars) ELSE s

RECURSIVE RStrip(_, _)
RStrip(s, chars) ==
  IF s # <<>> /\ s[Len(s)] \in chars THEN RStrip(SubSeq(s, 1, Len(s) - 1), chars) ELSE s

Strip(s, chars) == RStrip(LStrip(s, chars), chars)

\* str.replace(c, ""): every occurrence of the character removed
RemoveChar(s, c) == SelectSeq(s, LAMBDA x : x # c)

\* lines 164-165: .astype(str).str.strip('[]').str.replace("'", "")
list_to_string(xs) == RemoveChar(Strip(PyListStr(xs), {"[", "]"}), "'")

(***************************************************************************)
(* Names: the columns of the input sheet and of the result frames.         *)
(***************************************************************************)
UUID == <<"U", "U", "I", "D">>
study == <<"s", "t", "u", "d", "y">>
source_column == <<"s", "o", "u", "r", "c", "e", "_", "c", "o", "l", "u", "m", "n">>
source_column_value == source_column \o <<"_", "v", "a", "l", "u", "e">>
conditionMeasureSourceText ==
  <<"c", "o", "n", "d", "i", "t", "i", "o", "n", "M", "e", "a", "s", "u", "r", "e",
    "S", "o", "u", "r", "c", "e", "T", "e", "x", "t">>

hp == <<"h", "p">>
hpo == <<"h", "p", "o">>
mondo == <<"m", "o", "n", "d", "o">>
maxo == <<"m", "a", "x", "o">>
other == <<"o", "t", "h", "e", "r">>

Label == <<"L", "a", "b", "e", "l">>
Code == <<"C", "o", "d", "e">>
_result_curie == <<"_", "r", "e", "s", "u", "l", "t", "_", "c", "u", "r", "i", "e">>
_result_label == <<"_", "r", "e", "s", "u", "l", "t", "_", "l", "a", "b", "e", "l">>
_result_match_type ==
  <<"_", "r", "e", "s", "u", "l", "t", "_", "m", "a", "t", "c", "h", "_", "t", "y", "p", "e">>
_x == <<"_", "x">>
_y == <<"_", "y">>
_EXACT_LABEL == <<"_", "E", "X", "A", "C", "T", "_", "L", "A", "B", "E", "L">>
_EXACT_ALIAS == <<"_", "E", "X", "A", "C", "T", "_", "A", "L", "I", "A", "S">>
Trish_Notes == <<"T", "r", "i", "s", "h", " ", "N", "o", "t", "e", "s">>

\* the two search configurations: str(config.properties[0])
LABEL == "LABEL"
ALIAS == "ALIAS"

\* lines 127, 192, 300: 'hpo' if ontology_id.lower() == 'hp' else ontology_id
ontology_prefix(ontology_id) == IF Lower(ontology_id) = hp THEN hpo ELSE ontology_id

(***************************************************************************)
(* Data frames.                                                            *)
(***************************************************************************)
EmptyFrame == [cols |-> <<>>, rows |-> <<>>]

\* isnull(): NaN and None are missing
IsNull(v) == v = NaN \/ v = None

\* df[c], the cells of a column
Column(df, c) == [i \in 1..Len(df.rows) |-> df.rows[i][c]]

\* df[c] = vals: in place when the column exists, appended otherwise
AssignCol(df, c, vals) ==
  LET cols == IF c \in Range(df.cols) THEN df.cols ELSE Append(df.cols, c)
  IN [cols |-> cols,
      rows |-> [i \in 1..Len(df.rows) |->
                  [d \in Range(cols) |-> IF d = c THEN vals[i] ELSE df.rows[i][d]]]]

\* df.drop([c], axis=1)
DropCol(df, c) ==
  LET cols == SelectSeq(df.cols, LAMBDA d : d # c)
  IN [cols |-> cols,
      rows |-> [i \in 1..Len(df.rows) |-> [d \in Range(cols) |-> df.rows[i][d]]]]

\* df.rename(columns={old: new})
RenameCol(df, old, new) ==
  LET cols == [j \in 1..Len(df.cols) |-> IF df.cols[j] = old THEN new ELSE df.cols[j]]
  IN [cols |-> cols,
      rows |-> [i \in 1..Len(df.rows) |->
                  [d \in Range(cols) |-> IF d = new THEN df.rows[i][old] ELSE df.rows[i][d]]]]

\* df[mask]: the rows that satisfy Keep
FilterRows(df, Keep(_)) == [cols |-> df.cols, rows |-> SelectSeq(df.rows, Keep)]

\* np.where(cond, a, b) over three aligned columns
np_where(cond, a, b) == [i \in 1..Len(cond) |-> IF cond[i] THEN a[i] ELSE b[i]]

\* Series.notnull()
notnull(vals) == [i \in 1..Len(vals) |-> ~IsNull(vals[i])]

(***************************************************************************)
(* pd.merge(left, right, how='left', on=key)                               *)
(***************************************************************************)
\* a column of both frames other than the key gets the suffix _x on the left, _y on the right
merge_columns(left, right, key) ==
  LET overlap == (Range(left.cols) \cap Range(right.cols)) \ {key}
      lname(c) == IF c \in overlap THEN c \o _x ELSE c
      rname(c) == IF c \in overlap THEN c \o _y ELSE c
      rcols == SelectSeq(right.cols, LAMBDA c : c # key)
  IN [lcols |-> [j \in 1..Len(left.cols) |-> lname(left.cols[j])],
      rcols |-> [j \in 1..Len(rcols) |-> rname(rcols[j])],
      rsrc  |-> rcols]

\* one merged row: the left row's cells, then the right row's (NaN when there is none)
merge_row(left, mc, l, r, matched) ==
  [d \in Range(mc.lcols) \cup Range(mc.rcols) |->
     IF d \in Range(mc.lcols)
     THEN l[left.cols[CHOOSE j \in 1..Len(mc.lcols) : mc.lcols[j] = d]]
     ELSE IF matched THEN r[mc.rsrc[CHOOSE j \in 1..Len(mc.rcols) : mc.rcols[j] = d]]
     ELSE NaN]

\* how='inner': a left row without a match on the right is dropped
merge_inner(left, right, key) ==
  LET mc == merge_columns(left, right, key)
      rowsFor(l) ==
        LET ms == SelectSeq(right.rows, LAMBDA r : r[key] = l[key])
        IN [j \in 1..Len(ms) |-> merge_row(left, mc, l, ms[j], TRUE)]
  IN [cols |-> mc.lcols \o mc.rcols,
      rows |-> Flatten([i \in 1..Len(left.rows) |-> rowsFor(left.rows[i])])]

\* how='left': every left row is kept, in the left frame's order, once per match
merge(left, right, key) ==
  LET mc == merge_columns(left, right, key)
      rowsFor(l) ==
        LET ms == SelectSeq(right.rows, LAMBDA r : r[key] = l[key])
        IN IF ms = <<>> THEN << merge_row(left, mc, l, l, FALSE) >>
           ELSE [j \in 1..Len(ms) |-> merge_row(left, mc, l, ms[j], TRUE)]
  IN [cols |-> mc.lcols \o mc.rcols,
      rows |-> Flatten([i \in 1..Len(left.rows) |-> rowsFor(left.rows[i])])]

(***************************************************************************)
(* search_ontology (lines 120-177).  The adapter is a record               *)
(*   [basic_search |-> text -> sequence of CURIEs, label |-> CURIE -> label] *)
(* for the configuration the search runs under.                            *)
(***************************************************************************)
\* line 135: the text sent for a row is row.iloc[2], the cell of the THIRD column
search_text(df, row) == row[df.cols[3]]

\* lines 133-136: one [UUID, result, label] per row and per result, in discovery order
exact_search_results(adapter, df) ==
  Flatten([i \in 1..Len(df.rows) |->
    LET row == df.rows[i]
        found == adapter.basic_search[search_text(df, row)]
    IN [j \in 1..Len(found) |->
          [uuid |-> row[UUID], curie |-> found[j], label |-> adapter.label[found[j]]]]])

\* line 155: keep the results whose CURIE starts with the upper-cased ontology id
namespace_filter(ontology_id, results) ==
  SelectSeq(results, LAMBDA m : StartsWith(m.curie, Upper(ontology_id)))

\* lines 169-175: the marker of the configuration
match_type_marker(ontology_id, config) ==
  IF config = LABEL THEN Upper(ontology_prefix(ontology_id)) \o _EXACT_LABEL
  ELSE Upper(ontology_prefix(ontology_id)) \o _EXACT_ALIAS

search_ontology(ontology_id, adapter, df, config) ==
  LET prefix == ontology_prefix(ontology_id)
      curie_col == prefix \o _result_curie
      label_col == prefix \o _result_label
      type_col == prefix \o _result_match_type
      results == namespace_filter(ontology_id, exact_search_results(adapter, df))
      \* lines 158-161: groupby('UUID') sorts the groups by key
      uuids == SortSeq(Unique([i \in 1..Len(results) |-> results[i].uuid]), StrLess)
      group(u) == SelectSeq(results, LAMBDA m : m.uuid = u)
      curies(u) == [j \in 1..Len(group(u)) |-> group(u)[j].curie]
      labels(u) == [j \in 1..Len(group(u)) |-> group(u)[j].label]
  IN [cols |-> <<UUID, curie_col, label_col, type_col>>,
      rows |-> [i \in 1..Len(uuids) |->
                 [d \in {UUID, curie_col, label_col, type_col} |->
                    IF d = UUID THEN uuids[i]
                    ELSE IF d = curie_col THEN list_to_string(curies(uuids[i]))
                    ELSE IF d = label_col THEN list_to_string(labels(uuids[i]))
                    ELSE match_type_marker(ontology_id, config)]]]

(***************************************************************************)
(* _clean_up_columns (lines 185-218)                                       *)
(***************************************************************************)
_clean_up_columns(df, ontology_id) ==
  LET prefix == ontology_prefix(ontology_id)
      label_col == prefix \o _result_label
      curie_col == prefix \o _result_curie
      type_x == prefix \o _result_match_type \o _x
      type_y == prefix \o _result_match_type \o _y
  IN IF type_x \in Range(df.cols) /\ type_y \in Range(df.cols)
     THEN LET d1 == AssignCol(df, prefix \o Label,
                      np_where(notnull(Column(df, label_col)), Column(df, label_col),
                               Column(df, prefix \o Label)))
              d2 == DropCol(d1, label_col)
              d3 == AssignCol(d2, prefix \o Code,
                      np_where(notnull(Column(d2, curie_col)), Column(d2, curie_col),
                               Column(d2, prefix \o Code)))
              d4 == DropCol(d3, curie_col)
              d5 == AssignCol(d4, type_x,
                      np_where(notnull(Column(d4, type_y)), Column(d4, type_y),
                               Column(d4, type_x)))
              d6 == DropCol(d5, type_y)
          IN RenameCol(d6, type_x, prefix \o _result_match_type)
     ELSE LET d1 == AssignCol(df, prefix \o Label, Column(df, label_col))
              d2 == AssignCol(d1, prefix \o Code, Column(d1, curie_col))
          IN DropCol(DropCol(d2, label_col), curie_col)

(***************************************************************************)
(* The final aggregation (lines 327-351)                                   *)
(***************************************************************************)
\* line 329: pd.concat(frames, ignore_index=True): the union of the columns in order of
\* first appearance, the rows of each frame in turn, NaN where a frame lacks a column
concat(frames) ==
  LET cols == Unique(Flatten([k \in 1..Len(frames) |-> frames[k].cols]))
      widen(f, row) == [d \in Range(cols) |-> IF d \in Range(f.cols) THEN row[d] ELSE NaN]
  IN [cols |-> cols,
      rows |-> Flatten([k \in 1..Len(frames) |->
                 [i \in 1..Len(frames[k].rows) |-> widen(frames[k], frames[k].rows[i])]])]

\* line 332: fillna('')
fillna(df) ==
  [cols |-> df.cols,
   rows |-> [i \in 1..Len(df.rows) |->
               [d \in Range(df.cols) |-> IF IsNull(df.rows[i][d]) THEN <<>> ELSE df.rows[i][d]]]]

\* lines 335-337: the non-empty values of a group joined with ", "
custom_join(series) == Join(CommaSpace, SelectSeq(series, LAMBDA value : value # <<>>))

\* line 341
columns_to_groupby ==
  <<UUID, study, source_column, source_column_value, conditionMeasureSourceText>>

\* lines 342-347: the result columns the aggregation knows
known_result_columns ==
  { hpo \o Label, hpo \o Code, hpo \o _result_match_type,
    mondo \o Label, mondo \o Code, mondo \o _result_match_type,
    maxo \o Label, maxo \o Code, maxo \o _result_match_type,
    other \o Label, other \o Code, Trish_Notes }

columns_to_agg(df) == SelectSeq(df.cols, LAMBDA col : col \in known_result_columns)

\* line 351: groupby(by).agg({col: custom_join}).reset_index(): one row per distinct key,
\* the keys sorted, the key columns first and then the aggregated columns
groupby_agg(df, by, agg_cols) ==
  LET key(row) == [j \in 1..Len(by) |-> row[by[j]]]
      keys == SortSeq(Unique([i \in 1..Len(df.rows) |-> key(df.rows[i])]), KeyLess)
      group(kk) == SelectSeq(df.rows, LAMBDA row : key(row) = kk)
      cols == by \o agg_cols
  IN [cols |-> cols,
      rows |-> [g \in 1..Len(keys) |->
                 [d \in Range(cols) |->
                    IF d \in Range(by)
                    THEN keys[g][CHOOSE j \in 1..Len(by) : by[j] = d]
                    ELSE custom_join([i \in 1..Len(group(keys[g])) |-> group(keys[g])[i][d]])]]]

\* lines 329-351 as a whole: the outcomes.  groupby raises KeyError for a key column the
\* frame lacks.  With no column to aggregate, agg({}) raises ValueError ("No objects to
\* concatenate") or yields the key columns alone, depending on the pandas release.
combine(frames) ==
  LET df_cleaned == fillna(concat(frames))
      agg_cols == columns_to_agg(df_cleaned)
  IN IF \E j \in 1..Len(columns_to_groupby) : columns_to_groupby[j] \notin Range(df_cleaned.cols)
     THEN {[error |-> "KeyError", df |-> EmptyFrame]}
     ELSE IF agg_cols = <<>>
     THEN {[error |-> "ValueError", df |-> EmptyFrame],
           [error |-> "", df |-> groupby_agg(df_cleaned, columns_to_groupby, agg_cols)]}
     ELSE {[error |-> "", df |-> groupby_agg(df_cleaned, columns_to_groupby, agg_cols)]}

(***************************************************************************)
(* The inputs of a run: the sheet, the --oid list, the ontology caches and *)
(* what the ontology adapters answer.                                      *)
(***************************************************************************)
go == <<"g", "o">>

\* the ontology identifiers an operator may pass to --oid: the one with a display prefix
\* of its own, one the aggregation knows, one it does not know
OntologyIds == {hp, mondo, go}

\* the --oid lists: one to MaxOids identifiers, repeats allowed
OidLists == UNION {[1..n -> OntologyIds] : n \in 1..MaxOids}

Digits == <<"1", "2", "3", "4", "5", "6", "7", "8", "9">>

\* the cell values of a sheet
Texts == {<<"a">>, <<"b">>}
StudyValue == <<"s">>
SourceColumnValue == <<"c">>
MeasureValue == <<"m">>
OldLabelValue == <<"o">>
SheetUUID(i) == <<"k", Digits[i]>>

\* the column layouts of a sheet: the minimum columns; with the measure-text column;
\* with a leading UUID column and a result column filled in by hand as well
Layouts ==
  { <<study, source_column, source_column_value>>,
    <<study, source_column, source_column_value, conditionMeasureSourceText>>,
    <<UUID, study, source_column, source_column_value, conditionMeasureSourceText,
      hpo \o Label>> }

\* the sheet with the given layout whose i-th record has the source value values[i]
Sheet(layout, values) ==
  [cols |-> layout,
   rows |-> [i \in 1..Len(values) |->
               [d \in Range(layout) |->
                  IF d = UUID THEN SheetUUID(i)
                  ELSE IF d = study THEN StudyValue
                  ELSE IF d = source_column THEN SourceColumnValue
                  ELSE IF d = source_column_value THEN values[i]
                  ELSE IF d = conditionMeasureSourceText THEN MeasureValue
                  ELSE OldLabelValue]]]

\* the source values of the records of a sheet; the first record's is "a" (the adapters
\* answer for "a" whatever they answer for "b", so nothing is lost)
SourceValues ==
  {values \in UNION {[1..n -> Texts] : n \in 1..MaxRows} : values[1] = <<"a">>}

Sheets == {Sheet(layout, values) : layout \in Layouts, values \in SourceValues}

\* what uuid4() can return for the records of a sheet: distinct values
GeneratedUUIDs == {<<"u", Digits[i]>> : i \in 1..MaxRows}
UUIDAssignments(n) ==
  {f \in [1..n -> GeneratedUUIDs] : \A i, j \in 1..n : i # j => f[i] # f[j]}

\* the terms an adapter of ontology X can return: two of X's own namespace, one of a
\* namespace whose name begins with X's (GOREL in go), one of a foreign namespace
Term1(ontology_id) == Upper(ontology_id) \o <<":", "1">>
Term2(ontology_id) == Upper(ontology_id) \o <<":", "2">>
TermRel(ontology_id) == Upper(ontology_id) \o <<"R", "E", "L", ":", "3">>
TermForeign == <<"X", ":", "9">>

Curies(ontology_id) ==
  {Term1(ontology_id), Term2(ontology_id), TermRel(ontology_id), TermForeign}

\* adapter.label(curie): a label with an apostrophe, a plain label, no label
TermLabel(ontology_id, curie) ==
  IF curie = Term1(ontology_id) THEN <<"c", "'", "s">>
  ELSE IF curie = Term2(ontology_id) THEN <<"t">>
  ELSE IF curie = TermRel(ontology_id) THEN None
  ELSE <<"f">>

\* adapter.basic_search(text, config).  By label: nothing; one term; two terms, not in
\* sorted order.  By synonym: nothing; a foreign term and an own term; a term of the
\* longer namespace and an own term.
SearchAnswers(ontology_id, config) ==
  IF config = LABEL
  THEN { <<>>, <<Term1(ontology_id)>>, <<Term2(ontology_id), Term1(ontology_id)>> }
  ELSE { <<>>, <<TermForeign, Term1(ontology_id)>>,
         <<TermRel(ontology_id), Term2(ontology_id)>> }

(***************************************************************************)
(* The state of a run of `search`.                                         *)
(***************************************************************************)
VARIABLES
  input_df,     \* Sheet1 of the input file
  oid,          \* the tuple of requested ontology identifiers (line 248)
  cache,        \* the identifiers whose cached database file exists
  ontology_db,  \* what the adapters answered so far: <<id, config, text>> -> CURIEs
  pc,           \* where the run is
  data_df,      \* the working record set (lines 263-268)
  refresh_ontologies,              \* line 287
  k,                               \* the position in oid of the loop of line 299
  exact_label_results_df,          \* line 306
  overall_exact_label_results_df,  \* lines 308-310
  overall_exact_synonym_results_df,\* line 316
  all_final_results_dict,          \* line 257: a sequence of [key, value], in insertion order
  combined_df,                     \* line 351
  written,      \* the tables written to output files, in order
  error,        \* the exception that ended the run, "" when none
  queries,      \* history: the basic_search calls [k, config, uuid, text], in order
  passes,       \* history: the search_ontology calls <<k, config>>, in order
  fetched,      \* history: the identifiers fetch_ontology was called for, in order
  deleted,      \* history: the identifiers whose cache file was unlinked
  run,          \* 1 for the run, 2 for its re-run
  first_output  \* the table the first run wrote, once it is re-run

vars ==
  << input_df, oid, cache, ontology_db, pc, data_df, refresh_ontologies, k,
     exact_label_results_df, overall_exact_label_results_df,
     overall_exact_synonym_results_df, all_final_results_dict, combined_df, written,
     error, queries, passes, fetched, deleted, run, first_output >>

\* the locals of `search` as they are when the command starts
Locals ==
  /\ pc = "read"
  /\ data_df = EmptyFrame
  /\ refresh_ontologies = FALSE
  /\ k = 1
  /\ exact_label_results_df = EmptyFrame
  /\ overall_exact_label_results_df = EmptyFrame
  /\ overall_exact_synonym_results_df = EmptyFrame
  /\ all_final_results_dict = <<>>
  /\ combined_df = EmptyFrame
  /\ written = <<>>
  /\ error = ""
  /\ queries = <<>>
  /\ passes = <<>>
  /\ fetched = <<>>
  /\ deleted = {}

Init ==
  /\ input_df \in Sheets
  /\ oid \in OidLists
  /\ cache \in {{}, Range(oid)}
  /\ ontology_db = [key \in {} |-> <<>>]
  /\ Locals
  /\ run = 1
  /\ first_output = EmptyFrame

\* d[key] = value on a dict kept in insertion order
DictSet(d, key, value) ==
  IF \E j \in 1..Len(d) : d[j].key = key
  THEN [j \in 1..Len(d) |-> IF d[j].key = key THEN [key |-> key, value |-> value] ELSE d[j]]
  ELSE Append(d, [key |-> key, value |-> value])

\* d.values()
DictValues(d) == [j \in 1..Len(d) |-> d[j].value]

\* the texts search_ontology sends for the rows of df
SentTexts(df) == {search_text(df, df.rows[i]) : i \in 1..Len(df.rows)}

\* the answers an adapter may give for the texts: what it answered before, or any answer
AdapterAnswers(ontology_id, config, texts) ==
  {f \in [texts -> SearchAnswers(ontology_id, config)] :
     \A t \in texts :
       <<ontology_id, config, t>> \in DOMAIN ontology_db =>
         f[t] = ontology_db[<<ontology_id, config, t>>]}

\* ontology_db with the answers f recorded
Recorded(ontology_id, config, f) ==
  LET new == {<<ontology_id, config, t>> : t \in DOMAIN f}
  IN [key \in DOMAIN ontology_db \cup new |->
        IF key \in DOMAIN ontology_db THEN ontology_db[key] ELSE f[key[3]]]

\* the adapter of an ontology under one configuration
Adapter(ontology_id, f) ==
  [basic_search |-> f,
   label |-> [c \in Curies(ontology_id) |-> TermLabel(ontology_id, c)]]

\* the basic_search calls of one search_ontology over df (lines 133-135)
Calls(pos, config, df) ==
  [i \in 1..Len(df.rows) |->
     [k |-> pos, config |-> config, uuid |-> df.rows[i][UUID],
      text |-> search_text(df, df.rows[i])]]

(***************************************************************************)
(* The steps of `search` (lines 242-355).                                  *)
(***************************************************************************)
\* lines 259-268: read Sheet1, then set the UUID column to a fresh uuid4() per row,
\* whether or not the sheet has such a column
ReadInput ==
  /\ pc = "read"
  /\ \E f \in UUIDAssignments(Len(input_df.rows)) :
       data_df' = AssignCol(input_df, UUID, f)
  /\ pc' = "check_versions"
  /\ UNCHANGED << input_df, oid, cache, ontology_db, refresh_ontologies, k,
                  exact_label_results_df, overall_exact_label_results_df,
                  overall_exact_synonym_results_df, all_final_results_dict, combined_df,
                  written, error, queries, passes, fetched, deleted, run, first_output >>

\* lines 285, 221-235: _check_ontology_versions gets an adapter per identifier, which
\* downloads a database that is not cached (line 105); a failure is caught and printed
CheckVersions ==
  /\ pc = "check_versions"
  /\ \E downloaded \in SUBSET (Range(oid) \ cache) : cache' = cache \cup downloaded
  /\ pc' = "prompt"
  /\ UNCHANGED << input_df, oid, ontology_db, data_df, refresh_ontologies, k,
                  exact_label_results_df, overall_exact_label_results_df,
                  overall_exact_synonym_results_df, all_final_results_dict, combined_df,
                  written, error, queries, passes, fetched, deleted, run, first_output >>

\* lines 288-289: any answer but 'n' to the first prompt keeps the cached versions
PromptAccept ==
  /\ pc = "prompt"
  /\ refresh_ontologies' = FALSE
  /\ pc' = "fetch"
  /\ UNCHANGED << input_df, oid, cache, ontology_db, data_df, k,
                  exact_label_results_df, overall_exact_label_results_df,
                  overall_exact_synonym_results_df, all_final_results_dict, combined_df,
                  written, error, queries, passes, fetched, deleted, run, first_output >>

\* lines 289-292: 'n', then any answer but 'n' to the second prompt: refresh
PromptRefresh ==
  /\ pc = "prompt"
  /\ refresh_ontologies' = TRUE
  /\ pc' = "fetch"
  /\ UNCHANGED << input_df, oid, cache, ontology_db, data_df, k,
                  exact_label_results_df, overall_exact_label_results_df,
                  overall_exact_synonym_results_df, all_final_results_dict, combined_df,
                  written, error, queries, passes, fetched, deleted, run, first_output >>

\* a decline that clears the cached databases (clear_cached_db, lines 78-85) on its way out
PromptDeclineClearsCache ==
  /\ pc = "prompt"
  /\ pc' = "exited"
  /\ deleted' = deleted \cup cache
  /\ cache' = {}
  /\ UNCHANGED << input_df, oid, ontology_db, data_df, refresh_ontologies, k,
                  exact_label_results_df, overall_exact_label_results_df,
                  overall_exact_synonym_results_df, all_final_results_dict, combined_df,
                  written, error, queries, passes, fetched, run, first_output >>

\* lines 289-295: 'n' to both prompts: print "Exiting." and return
PromptDecline ==
  /\ pc = "prompt"
  /\ pc' = "exited"
  /\ UNCHANGED << input_df, oid, cache, ontology_db, data_df, refresh_ontologies, k,
                  exact_label_results_df, overall_exact_label_results_df,
                  overall_exact_synonym_results_df, all_final_results_dict, combined_df,
                  written, error, queries, passes, fetched, deleted, run, first_output >>

\* lines 303, 88-117: fetch_ontology unlinks the cached file on a refresh, then gets the
\* adapter, which downloads the database when the file is missing
FetchOntology ==
  /\ pc = "fetch"
  /\ LET ontology_id == oid[k]
         unlinked == refresh_ontologies /\ ontology_id \in cache
     IN /\ deleted' = IF unlinked THEN deleted \cup {ontology_id} ELSE deleted
        /\ cache' = cache \cup {ontology_id}
        /\ fetched' = Append(fetched, ontology_id)
  /\ pc' = "label"
  /\ UNCHANGED << input_df, oid, ontology_db, data_df, refresh_ontologies, k,
                  exact_label_results_df, overall_exact_label_results_df,
                  overall_exact_synonym_results_df, all_final_results_dict, combined_df,
                  written, error, queries, passes, run, first_output >>

\* line 106: get_adapter raises when the database is missing and cannot be downloaded;
\* fetch_ontology does not catch it
FetchOntologyFails ==
  /\ pc = "fetch"
  /\ LET ontology_id == oid[k]
         unlinked == refresh_ontologies /\ ontology_id \in cache
     IN /\ unlinked \/ ontology_id \notin cache
        /\ deleted' = IF unlinked THEN deleted \cup {ontology_id} ELSE deleted
        /\ cache' = cache \ {ontology_id}
        /\ fetched' = Append(fetched, ontology_id)
  /\ pc' = "failed"
  /\ error' = "get_adapter"
  /\ UNCHANGED << input_df, oid, ontology_db, data_df, refresh_ontologies, k,
                  exact_label_results_df, overall_exact_label_results_df,
                  overall_exact_synonym_results_df, all_final_results_dict, combined_df,
                  written, queries, passes, run, first_output >>

\* lines 305-310: the label search over every record, the left join of its results onto
\* the record set, the clean-up
LabelPass ==
  /\ pc = "label"
  /\ \E f \in AdapterAnswers(oid[k], LABEL, SentTexts(data_df)) :
       /\ ontology_db' = Recorded(oid[k], LABEL, f)
       /\ exact_label_results_df' =
            search_ontology(oid[k], Adapter(oid[k], f), data_df, LABEL)
  /\ overall_exact_label_results_df' =
       _clean_up_columns(merge(data_df, exact_label_results_df', UUID), oid[k])
  /\ queries' = queries \o Calls(k, LABEL, data_df)
  /\ passes' = Append(passes, <<k, LABEL>>)
  /\ pc' = "synonym"
  /\ UNCHANGED << input_df, oid, cache, data_df, refresh_ontologies, k,
                  overall_exact_synonym_results_df, all_final_results_dict, combined_df,
                  written, error, fetched, deleted, run, first_output >>

\* every row of the frame: the filter of line 313 left out
all_rows(df, col) == df

\* line 313: the rows whose match-type marker is null
unmatched_rows(df, col) == FilterRows(df, LAMBDA row : IsNull(row[col]))

\* lines 312-323: the synonym search over the records the label pass left unmatched, the
\* left join onto the label pass's frame, the clean-up, the frame kept under the identifier
SynonymPass ==
  /\ pc = "synonym"
  /\ LET ontology_id == oid[k]
         filtered_df == unmatched_rows(overall_exact_label_results_df,
                                       ontology_prefix(ontology_id) \o _result_match_type)
     IN /\ \E f \in AdapterAnswers(ontology_id, ALIAS, SentTexts(filtered_df)) :
             /\ ontology_db' = Recorded(ontology_id, ALIAS, f)
             /\ overall_exact_synonym_results_df' =
                  search_ontology(ontology_id, Adapter(ontology_id, f), filtered_df, ALIAS)
        /\ all_final_results_dict' =
             DictSet(all_final_results_dict, ontology_id,
                     _clean_up_columns(merge(overall_exact_label_results_df,
                                             overall_exact_synonym_results_df', UUID),
                                       ontology_id))
        /\ queries' = queries \o Calls(k, ALIAS, filtered_df)
        /\ passes' = Append(passes, <<k, ALIAS>>)
  /\ k' = k + 1
  /\ pc' = IF k = Len(oid) THEN "combine" ELSE "fetch"
  /\ UNCHANGED << input_df, oid, cache, data_df, refresh_ontologies,
                  exact_label_results_df, overall_exact_label_results_df, combined_df,
                  written, error, fetched, deleted, run, first_output >>

\* line 135: basic_search raises in either pass; search_ontology does not catch it
SearchFails ==
  /\ pc \in {"label", "synonym"}
  /\ pc' = "failed"
  /\ error' = "basic_search"
  /\ UNCHANGED << input_df, oid, cache, ontology_db, data_df, refresh_ontologies, k,
                  exact_label_results_df, overall_exact_label_results_df,
                  overall_exact_synonym_results_df, all_final_results_dict, combined_df,
                  written, queries, passes, fetched, deleted, run, first_output >>

\* lines 327-351: concat, fillna, groupby/agg
Combine ==
  /\ pc = "combine"
  /\ \E r \in combine(DictValues(all_final_results_dict)) :
       /\ error' = r.error
       /\ combined_df' = r.df
       /\ pc' = IF r.error = "" THEN "write" ELSE "failed"
  /\ UNCHANGED << input_df, oid, cache, ontology_db, data_df, refresh_ontologies, k,
                  exact_label_results_df, overall_exact_label_results_df,
                  overall_exact_synonym_results_df, all_final_results_dict,
                  written, queries, passes, fetched, deleted, run, first_output >>

\* line 355: to_excel
WriteOutput ==
  /\ pc = "write"
  /\ written' = Append(written, combined_df)
  /\ pc' = "done"
  /\ UNCHANGED << input_df, oid, cache, ontology_db, data_df, refresh_ontologies, k,
                  exact_label_results_df, overall_exact_label_results_df,
                  overall_exact_synonym_results_df, all_final_results_dict, combined_df,
                  error, queries, passes, fetched, deleted, run, first_output >>

Next ==
  \/ ReadInput
  \/ CheckVersions
  \/ PromptAccept
  \/ PromptRefresh
  \/ PromptDecline
  \/ FetchOntology
  \/ FetchOntologyFails
  \/ LabelPass
  \/ SynonymPass
  \/ SearchFails
  \/ Combine
  \/ WriteOutput

Spec == Init /\ [][Next]_vars

(***************************************************************************)
(* The command run a second time on the same sheet, with the same --oid    *)
(* list and the same ontology databases, after a first run that kept the   *)
(* cached versions.                                                        *)
(***************************************************************************)
Rerun ==
  /\ pc = "done"
  /\ run = 1
  /\ ~refresh_ontologies
  /\ run' = 2
  /\ first_output' = written[1]
  /\ pc' = "read"
  /\ data_df' = EmptyFrame
  /\ refresh_ontologies' = FALSE
  /\ k' = 1
  /\ exact_label_results_df' = EmptyFrame
  /\ overall_exact_label_results_df' = EmptyFrame
  /\ overall_exact_synonym_results_df' = EmptyFrame
  /\ all_final_results_dict' = <<>>
  /\ combined_df' = EmptyFrame
  /\ written' = <<>>
  /\ error' = ""
  /\ queries' = <<>>
  /\ passes' = <<>>
  /\ fetched' = <<>>
  /\ deleted' = {}
  /\ UNCHANGED << input_df, oid, cache, ontology_db >>

\* the sheets of the re-run: one requested ontology
InitRerun == Init /\ Len(oid) = 1

NextRerun == Next \/ Rerun

SpecRerun == InitRerun /\ [][NextRerun]_vars

(***************************************************************************)
(* What the claims speak of.                                               *)
(***************************************************************************)
\* the table of the output file, once it is written
Output == written[Len(written)]

\* the run is past the loop body of the ontology at position p of oid
Processed(p) == p < k /\ pc \in {"fetch", "combine", "write", "done"}

\* the frame kept for the ontology at position p
FinalFrame(p) ==
  (CHOOSE e \in Range(all_final_results_dict) : e.key = oid[p]).value

\* the three result columns of an ontology
LabelColumn(ontology_id) == ontology_prefix(ontology_id) \o Label
CodeColumn(ontology_id) == ontology_prefix(ontology_id) \o Code
MatchTypeColumn(ontology_id) == ontology_prefix(ontology_id) \o _result_match_type

\* the pieces of a ", "-joined text
RECURSIVE SplitCommaSpace(_)
SplitCommaSpace(s) ==
  IF \E i \in 1..(Len(s) - 1) : s[i] = "," /\ s[i + 1] = " "
  THEN LET i == CHOOSE i \in 1..(Len(s) - 1) :
                  /\ s[i] = "," /\ s[i + 1] = " "
                  /\ \A j \in 1..(i - 1) : ~(s[j] = "," /\ s[j + 1] = " ")
       IN <<SubSeq(s, 1, i - 1)>> \o SplitCommaSpace(SubSeq(s, i + 2, Len(s)))
  ELSE <<s>>

\* the part of a CURIE before its colon
CuriePrefix(curie) ==
  IF ":" \in Range(curie)
  THEN SubSeq(curie, 1, (CHOOSE i \in 1..Len(curie) :
                           curie[i] = ":" /\ \A j \in 1..(i - 1) : curie[j] # ":") - 1)
  ELSE curie

\* the record of the working set with the given UUID
RecordOf(uuid) == CHOOSE row \in Range(data_df.rows) : row[UUID] = uuid

\* the positions of the basic_search calls made for ontology position p under a configuration
CallsAt(p, config) ==
  {n \in 1..Len(queries) : queries[n].k = p /\ queries[n].config = config}

(***************************************************************************)
(* C1                                                                      *)
(***************************************************************************)
\* C1: when the command has written its output, every UUID assigned to an input row is
\* the UUID of exactly one row of the output table.
C1_EveryUUIDExactlyOnce ==
  pc = "done" =>
    \A i \in 1..Len(data_df.rows) :
      Cardinality({j \in 1..Len(Output.rows) :
                     Output.rows[j][UUID] = data_df.rows[i][UUID]}) = 1

\* two different ontologies were processed for two records, one of them matched several
\* terms and one matched nothing in either pass, and the output is written
C1_Witness ==
  /\ pc = "done"
  /\ Len(oid) = 2 /\ oid[1] # oid[2]
  /\ Len(data_df.rows) = 2
  /\ \E p \in 1..2 : \E row \in Range(FinalFrame(p).rows) :
       IsNull(row[MatchTypeColumn(oid[p])])
  /\ \E p \in 1..2 : \E row \in Range(FinalFrame(p).rows) :
       ~IsNull(row[CodeColumn(oid[p])]) /\ Len(SplitCommaSpace(row[CodeColumn(oid[p])])) = 2

(***************************************************************************)
(* C2                                                                      *)
(***************************************************************************)
\* C2: for every requested ontology, a synonym search is made only for a record the label
\* search was made for earlier and left unmatched, no record is searched twice under one
\* configuration, and the record's marker is the label marker when the label pass matched
\* it, else the synonym marker when the synonym pass matched it, else missing; a
\* label-matched record keeps the label pass's terms.
C2_LabelBeforeSynonym ==
  \A p \in 1..Len(oid) :
    /\ \A n, m \in CallsAt(p, LABEL) \cup CallsAt(p, ALIAS) :
         (n # m /\ queries[n].config = queries[m].config) => queries[n].uuid # queries[m].uuid
    /\ \A n \in CallsAt(p, ALIAS) :
         \E m \in CallsAt(p, LABEL) : m < n /\ queries[m].uuid = queries[n].uuid
    /\ (p = k /\ pc = "synonym") => CallsAt(p, ALIAS) = {}
    /\ (p = k - 1 /\ Processed(p)) =>
         LET id == oid[p]
             label_rows == exact_label_results_df.rows
             label_matched == {row[UUID] : row \in Range(label_rows)}
             synonym_matched ==
               {row[UUID] : row \in Range(overall_exact_synonym_results_df.rows)}
         IN /\ \A n \in CallsAt(p, ALIAS) : queries[n].uuid \notin label_matched
            /\ \A row \in Range(FinalFrame(p).rows) :
                 IF row[UUID] \in label_matched
                 THEN /\ row[MatchTypeColumn(id)] = Upper(ontology_prefix(id)) \o _EXACT_LABEL
                      /\ \E lr \in Range(label_rows) :
                           /\ lr[UUID] = row[UUID]
                           /\ row[CodeColumn(id)] = lr[ontology_prefix(id) \o _result_curie]
                           /\ row[LabelColumn(id)] = lr[ontology_prefix(id) \o _result_label]
                 ELSE IF row[UUID] \in synonym_matched
                 THEN row[MatchTypeColumn(id)] = Upper(ontology_prefix(id)) \o _EXACT_ALIAS
                 ELSE IsNull(row[MatchTypeColumn(id)])

\* an ontology is processed in which one record was matched by label and another, which
\* the label pass left unmatched, by synonym
C2_Witness ==
  \E p \in 1..Len(oid) :
    /\ p = k - 1 /\ Processed(p)
    /\ exact_label_results_df.rows # <<>>
    /\ overall_exact_synonym_results_df.rows # <<>>
    /\ CallsAt(p, ALIAS) # {}

(***************************************************************************)
(* C3                                                                      *)
(***************************************************************************)
\* C3: no row that search_ontology returns for an ontology holds a term whose CURIE prefix
\* (the part before the colon) differs from the upper-cased ontology identifier.
C3_NoForeignNamespace ==
  \A p \in 1..Len(oid) :
    (p = k - 1 /\ Processed(p)) =>
      \A row \in Range(overall_exact_synonym_results_df.rows) :
        \A curie \in Range(SplitCommaSpace(row[ontology_prefix(oid[p]) \o _result_curie])) :
          CuriePrefix(curie) = Upper(oid[p])

(***************************************************************************)
(* C4                                                                      *)
(***************************************************************************)
\* the terms the label pass kept for a record, in discovery order
KeptByLabel(p, uuid) ==
  namespace_filter(oid[p],
    [j \in 1..Len(ontology_db[<<oid[p], LABEL, search_text(data_df, RecordOf(uuid))>>]) |->
       LET curie == ontology_db[<<oid[p], LABEL, search_text(data_df, RecordOf(uuid))>>][j]
       IN [uuid |-> uuid, curie |-> curie, label |-> TermLabel(oid[p], curie)]])

\* C4: in every row the label pass returns, the code field is the kept terms' identifiers
\* joined with ", " in discovery order and the label field is their labels joined with
\* ", ", every character of each kept.
C4_JoinedVerbatim ==
  (pc = "synonym") =>
    \A row \in Range(exact_label_results_df.rows) :
      LET kept == KeptByLabel(k, row[UUID])
      IN /\ row[ontology_prefix(oid[k]) \o _result_curie] =
              Join(CommaSpace, [j \in 1..Len(kept) |-> kept[j].curie])
         /\ row[ontology_prefix(oid[k]) \o _result_label] =
              Join(CommaSpace, [j \in 1..Len(kept) |-> kept[j].label])

(***************************************************************************)
(* C5                                                                      *)
(***************************************************************************)
\* C5: the output table has the three result columns of every requested ontology.
C5_TripletPerOntology ==
  pc = "done" =>
    \A p \in 1..Len(oid) :
      {LabelColumn(oid[p]), CodeColumn(oid[p]), MatchTypeColumn(oid[p])}
        \subseteq Range(Output.cols)

(***************************************************************************)
(* C6                                                                      *)
(***************************************************************************)
\* C6: a re-run on the same sheet and the same ontology databases, without a refresh in
\* either run, writes the table the first run wrote: the same rows in the same order with
\* the same value in every column.
C6_RerunWritesSameTable ==
  (run = 2 /\ pc = "done" /\ ~refresh_ontologies) => Output = first_output

(***************************************************************************)
(* C7                                                                      *)
(***************************************************************************)
\* the search_ontology calls of a run that processed every requested ontology
AllPasses ==
  Flatten([p \in 1..Len(oid) |-> << <<p, LABEL>>, <<p, ALIAS>> >>])

IdentityColumns ==
  {UUID, study, source_column, source_column_value} \cap Range(input_df.cols)

\* C8: every record of the sheet is a row of the output with the same value in each
\* identity column the sheet has, the UUID column included.
C8_IdentityKept ==
  pc = "done" =>
    \A i \in 1..Len(input_df.rows) :
      \E j \in 1..Len(Output.rows) :
        \A c \in IdentityColumns : Output.rows[j][c] = input_df.rows[i][c]

(***************************************************************************)
(* C9                                                                      *)
(***************************************************************************)
\* C9: once every requested ontology is processed the aggregation completes whether or not
\* the sheet has the measure-text column: it does not end on a missing group-by column.
C9_AggregationCompletes ==
  ~(pc = "failed" /\ error = "KeyError" /\ conditionMeasureSourceText \notin Range(input_df.cols))

(***************************************************************************)
(* C10                                                                     *)
(***************************************************************************)
\* C10: every basic_search call, in either pass, sends the source_column_value of the
\* record whose UUID it carries.
C10_SendsSourceValue ==
  \A n \in 1..Len(queries) :
    queries[n].text = RecordOf(queries[n].uuid)[source_column_value]

====
